---- MODULE Spec2Model ----
(***************************************************************************)
(* Model of src/CalReport.py, the "Roc Protest Calendar Audit" script:     *)
(*   - sanitize_text (lines 12-19), on texts held as sequences of          *)
(*     one-character strings;                                              *)
(*   - fetch_calendar (lines 21-51) against an environment of feeds;       *)
(*   - the "Run Audit Sync" block (lines 65-123): aggregation of the       *)
(*     community sources, the no-data test, the fingerprint columns, the   *)
(*     key sets and the three tabs.                                        *)
(* Three specifications share the variables:                               *)
(*   Spec          a run of the script as written, from the page load;     *)
(*   SpecAudit     lines 79-120 applied to every pair of collected lists   *)
(*                 (master_events, all_community) within the bounds;       *)
(*   SpecSanitize  sanitize_text applied, and applied again, to every text *)
(*                 within the bounds.                                      *)
(***************************************************************************)
EXTENDS Integers, Sequences, FiniteSets, TLC

VARIABLES
    pc,             \* position in the script (or in the sanitize harness)
    outcome,        \* how the script run ended: "none" while it runs
    feeds,          \* environment: source name -> what its URL serves
    returned,       \* source name -> value fetch_calendar returned for it
    errors,         \* st.error(...) messages of fetch_calendar, in order
    next_source,    \* index into COMMUNITY_SOURCES of the loop at line 72
    master_events,  \* line 68
    all_community,  \* lines 71-74
    master_df,      \* line 69, then with the fingerprint column (line 83)
    community_df,   \* line 75, then with the fingerprint column (line 84)
    master_keys,    \* line 86
    community_keys, \* line 87
    missing,        \* line 98
    synced,         \* line 111
    io_only,        \* line 117
    tab1,           \* what st.dataframe shows in tab 1 (line 101)
    tab2,           \* what st.dataframe shows in tab 2 (line 113)
    tab3,           \* what st.dataframe shows in tab 3 (line 120)
    text,           \* SpecSanitize: the input text
    out1,           \* SpecSanitize: sanitize_text(text)
    out2            \* SpecSanitize: sanitize_text(sanitize_text(text))

vars == <<pc, outcome, feeds, returned, errors, next_source, master_events,
          all_community, master_df, community_df, master_keys, community_keys,
          missing, synced, io_only, tab1, tab2, tab3, text, out1, out2>>

runVars == <<feeds, returned, errors, next_source, master_events, all_community>>
frameVars == <<master_df, community_df>>
auditVars == <<master_keys, community_keys, missing, synced, io_only, tab1, tab2, tab3>>
textVars == <<text, out1, out2>>

(***************************************************************************)
(* Bounds of the model.                                                    *)
(***************************************************************************)
MaxFrags == 3         \* fragments concatenated into an input text
MaxFeedEvents == 1    \* events a feed serves inside the 30-day window
MaxMaster == 2        \* records of master_events drawn for SpecAudit
MaxCommunity == 2     \* records of all_community drawn for SpecAudit

(***************************************************************************)
(* Texts.  A Python str is a sequence of one-character strings; None is    *)
(* the one-element sequence holding the non-character "None".              *)
(***************************************************************************)
None == <<"None">>
NA == <<"N", "/", "A">>
Whitespace == {" ", "\t", "\n", "\r"}
Upper == <<"A","B","C","D","E","F","G","H","I","J","K","L","M",
           "N","O","P","Q","R","S","T","U","V","W","X","Y","Z">>
Lower == <<"a","b","c","d","e","f","g","h","i","j","k","l","m",
           "n","o","p","q","r","s","t","u","v","w","x","y","z">>

\* The longest concatenations of at most n elements of S, and shorter ones.
RECURSIVE SeqsUpTo(_, _)
SeqsUpTo(S, n) ==
    IF n = 0 THEN {<<>>}
    ELSE LET shorter == SeqsUpTo(S, n - 1)
         IN  shorter \cup {Append(s, x) : s \in shorter, x \in S}

RECURSIVE Flatten(_)
Flatten(ss) == IF ss = <<>> THEN <<>> ELSE Head(ss) \o Flatten(Tail(ss))

\* Line 16: what re.sub puts in the place of a tag, the empty string.
TagReplacement == <<>>

\* re.sub(r'<[^>]*>', '', text): leftmost matches, each from a '<' to the
\* first '>' after it; a '<' with no later '>' is kept.
RECURSIVE StripTags(_)
StripTags(t) ==
    IF t = <<>> THEN <<>>
    ELSE LET closers == {i \in 2..Len(t) : t[i] = ">"}
         IN  IF Head(t) = "<" /\ closers # {}
             THEN LET j == CHOOSE i \in closers : \A k \in closers : i <= k
                  IN  TagReplacement \o StripTags(SubSeq(t, j + 1, Len(t)))
             ELSE <<Head(t)>> \o StripTags(Tail(t))

\* str.replace(old, new): every non-overlapping occurrence, left to right.
RECURSIVE Replace(_, _, _)
Replace(t, old, new) ==
    IF Len(t) < Len(old) THEN t
    ELSE IF SubSeq(t, 1, Len(old)) = old
         THEN new \o Replace(SubSeq(t, Len(old) + 1, Len(t)), old, new)
         ELSE <<Head(t)>> \o Replace(Tail(t), old, new)

\* str.split(): the maximal runs of non-whitespace characters.
RECURSIVE Split(_)
Split(t) ==
    IF t = <<>> THEN <<>>
    ELSE IF Head(t) \in Whitespace THEN Split(Tail(t))
    ELSE LET stops == {i \in 1..Len(t) : t[i] \in Whitespace}
             n == IF stops = {} THEN Len(t)
                  ELSE (CHOOSE i \in stops : \A k \in stops : i <= k) - 1
         IN  <<SubSeq(t, 1, n)>> \o Split(SubSeq(t, n + 1, Len(t)))

\* ' '.join(words)
RECURSIVE Join(_)
Join(words) ==
    IF words = <<>> THEN <<>>
    ELSE IF Len(words) = 1 THEN Head(words)
    ELSE Head(words) \o <<" ">> \o Join(Tail(words))

DecodeEntities(t) ==
    Replace(Replace(Replace(t, <<"&","n","b","s","p",";">>, <<" ">>),
                    <<"&","a","m","p",";">>, <<"&">>),
            <<"&","q","u","o","t",";">>, <<"\"">>)

sanitize_text(t) ==
    IF t = None \/ t = <<>> \/ t = NA THEN NA
    ELSE LET stripped == StripTags(t)
             decoded == DecodeEntities(stripped)
             spaced == Replace(Replace(decoded, <<"\r">>, <<" ">>), <<"\n">>, <<" ">>)
         IN  Join(Split(spaced))

\* str.lower() on the ASCII letters.
UpperChars == {Upper[i] : i \in 1..Len(Upper)}
LowerOf == [c \in UpperChars |-> Lower[CHOOSE i \in 1..Len(Upper) : Upper[i] = c]]
LowerChar(c) == IF c \in UpperChars THEN LowerOf[c] ELSE c
lower(t) == [i \in 1..Len(t) |-> LowerChar(t[i])]

(***************************************************************************)
(* SpecSanitize: sanitize_text applied twice to every bounded text.        *)
(***************************************************************************)
Frags == { <<"a">>, <<" ">>, <<"\n">>, <<"\r">>, <<"<">>, <<">">>, <<"&">>,
           <<"a","m","p",";">>, <<"n","b","s","p",";">>, <<"q","u","o","t",";">>,
           <<"<","b","r",">">> }

\* The raw summary of the spec's scenario D: "Rally<br>Today &amp; Tomorrow\n"
ScenarioD == <<"R","a","l","l","y","<","b","r",">","T","o","d","a","y"," ",
               "&","a","m","p",";"," ","T","o","m","o","r","r","o","w","\n">>
\* "Rally Today & Tomorrow"
ScenarioDClean == <<"R","a","l","l","y"," ","T","o","d","a","y"," ","&"," ",
                    "T","o","m","o","r","r","o","w">>

Texts == {Flatten(fs) : fs \in SeqsUpTo(Frags, MaxFrags)} \cup {ScenarioD, NA}

(***************************************************************************)
(* Events and canonical records (lines 35-47).  An instant is a number of  *)
(* whole hours since 2025-05-01 00:00 in the system's time zone, which is  *)
(* what ev.start.astimezone() denotes.                                     *)
(***************************************************************************)
Digits == <<"0","1","2","3","4","5","6","7","8","9">>
Pad2(n) == <<Digits[(n \div 10) + 1], Digits[(n % 10) + 1]>>
WeekdayNames == <<"Thursday","Friday","Saturday","Sunday","Monday","Tuesday","Wednesday">>

\* local_start.strftime('%Y-%m-%d %I:%M %p')
Strftime(h) ==
    LET day == 1 + (h \div 24)
        hour == h % 24
        h12 == IF hour % 12 = 0 THEN 12 ELSE hour % 12
        ampm == IF hour < 12 THEN "A" ELSE "P"
    IN  <<"2","0","2","5","-","0","5","-">> \o Pad2(day) \o <<" ">> \o Pad2(h12)
        \o <<":","0","0"," ">> \o <<ampm, "M">>

\* local_start.strftime('%A')
Weekday(h) == WeekdayNames[((h \div 24) % 7) + 1]

Rally == <<"R","a","l","l","y">>
RallyUpper == <<"<","b",">","R","A","L","L","Y","<","/","b",">">>
Vigil == <<"V","i","g","i","l">>
Park == <<"P","a","r","k">>

\* The parsed events the model draws from: two that differ only in the case
\* of the title and in the display-only fields, one with the same title at
\* another hour, one with another title at the same hour.
RallyAt10 ==
    [summary |-> Rally, start |-> 10, location |-> Park, description |-> None,
     recurring |-> FALSE, has_uid |-> TRUE, uid |-> "u1"]
RallyUpperAt10 ==
    [summary |-> RallyUpper, start |-> 10, location |-> None, description |-> Park,
     recurring |-> TRUE, has_uid |-> FALSE, uid |-> ""]
RallyAt13 ==
    [summary |-> Rally, start |-> 13, location |-> Park, description |-> None,
     recurring |-> FALSE, has_uid |-> TRUE, uid |-> "u3"]
VigilAt10 ==
    [summary |-> Vigil, start |-> 10, location |-> None, description |-> None,
     recurring |-> FALSE, has_uid |-> TRUE, uid |-> "u4"]
RawEvents == {RallyAt10, RallyUpperAt10, RallyAt13, VigilAt10}

\* Lines 36-47: the dict appended for one parsed event.
Record(name, ev) ==
    [ FromCal |-> name,
      Summary |-> sanitize_text(ev.summary),
      DateTime |-> Strftime(ev.start),
      DateTime24 |-> ev.start,
      Weekday |-> Weekday(ev.start),
      Location |-> sanitize_text(ev.location),
      Description |-> sanitize_text(ev.description),
      Recurring |-> ev.recurring,
      UID |-> IF ev.has_uid THEN ev.uid ELSE "N/A" ]

(***************************************************************************)
(* The sources and fetch_calendar (lines 21-59).                           *)
(***************************************************************************)
MASTER == "RocNY"                                  \* line 68
COMMUNITY_SOURCES == <<"GVI", "IndiWMC", "Gritroc">>  \* lines 55-59, in dict order
AllSources == {MASTER} \cup {COMMUNITY_SOURCES[i] : i \in 1..Len(COMMUNITY_SOURCES)}

\* The names the module binds (lines 1-6).  fetch_calendar reads the global
\* name requests (line 23), which no import binds.
ModuleNames == {"st", "pd", "re", "httpx", "parse_events", "datetime", "timedelta", "timezone"}

\* What a URL can serve: a transport failure, an HTTP error status, a
\* timeout, content without BEGIN:VCALENDAR, content the parser rejects, or
\* a calendar with some events inside the 30-day window.
FailureKinds == {"network", "http", "timeout", "nomarker", "parse"}
FeedValues ==
    {[status |-> k, events |-> <<>>] : k \in FailureKinds}
    \cup {[status |-> "ok", events |-> es] : es \in SeqsUpTo(RawEvents, MaxFeedEvents)}

\* The except clause, lines 49-51.
Caught(name, e) == [data |-> <<>>, error |-> <<name, e>>]
Returned(data) == [data |-> data, error |-> <<>>]

\* Lines 21-51.  The result holds the returned list and, when the except
\* clause ran, the message given to st.error.
fetch_calendar(name, feed) ==
    IF "requests" \notin ModuleNames THEN Caught(name, "NameError")          \* 23
    ELSE IF feed.status \in {"network", "timeout"} THEN Caught(name, feed.status) \* 23
    ELSE IF feed.status = "http" THEN Caught(name, "http")                 \* 24
    ELSE IF feed.status = "nomarker" THEN Returned(<<>>)                   \* 27-28
    ELSE IF feed.status = "parse" THEN Caught(name, "parse")               \* 32
    ELSE Returned([i \in 1..Len(feed.events) |-> Record(name, feed.events[i])])

(***************************************************************************)
(* pandas: a DataFrame is its set of columns and its rows.                 *)
(***************************************************************************)
RecordColumns == {"FromCal", "Summary", "DateTime", "DateTime24", "Weekday",
                  "Location", "Description", "Recurring", "UID"}

\* pd.DataFrame(list of dicts): an empty list gives a frame with no columns.
DataFrame(list) ==
    [columns |-> IF list = <<>> THEN {} ELSE RecordColumns,
     fp |-> <<>>,
     rows |-> list]

\* df.empty
Empty(df) == df.rows = <<>>

\* Line 79.
NoData(m, c) == Empty(m) /\ Empty(c)

\* df['Summary'].str.lower() + df['DateTime'], row by row (lines 83, 84).
Fingerprint(r) == lower(r.Summary) \o r.DateTime

\* df['fingerprint'] = ...: the new column, aligned with the rows.
WithFingerprint(df) ==
    [columns |-> df.columns \cup {"fingerprint"},
     fp |-> [i \in 1..Len(df.rows) |-> Fingerprint(df.rows[i])],
     rows |-> df.rows]

\* set(df['fingerprint']) (lines 86, 87).
KeySet(df) == {df.fp[i] : i \in 1..Len(df.fp)}

\* df['fingerprint'].isin(keys): a boolean mask over the rows.
isin(df, keys) == [i \in 1..Len(df.rows) |-> df.fp[i] \in keys]

\* The mask left as it is: the ~ of lines 98 and 117 forgotten.
InvertForgotten(mask) == mask

\* ~mask
Invert(mask) == [i \in 1..Len(mask) |-> ~mask[i]]

\* df[mask]: the rows whose mask is true, in order.
RECURSIVE SelectFrom(_, _, _)
SelectFrom(rows, mask, i) ==
    IF i > Len(rows) THEN <<>>
    ELSE (IF mask[i] THEN <<rows[i]>> ELSE <<>>) \o SelectFrom(rows, mask, i + 1)
\* df[mask] after a drop_duplicates('fingerprint'): of the rows that share a
\* fingerprint only the first is kept.
SelectFirstPerKey(df, mask) ==
    SelectFrom(df.rows,
               [i \in 1..Len(mask) |-> mask[i] /\ \A j \in 1..(i - 1) : df.fp[j] # df.fp[i]],
               1)

Select(df, mask) == SelectFrom(df.rows, mask, 1)

\* Python's order on the characters of a DateTime string, and on two such
\* strings (they have the same length).
CharOrder == <<" ", "-", "0", "1", "2", "3", "4", "5", "6", "7", "8", "9", ":", "A", "M", "P">>
CharRank(c) == CHOOSE i \in 1..Len(CharOrder) : CharOrder[i] = c
StrLess(x, y) ==
    \E k \in 1..Len(x) :
        /\ \A i \in 1..(k - 1) : x[i] = y[i]
        /\ CharRank(x[k]) < CharRank(y[k])

\* The order sort_values('DateTime') would put two rows in.
SortsBeforeDisplay(a, b) == ~StrLess(b.DateTime, a.DateTime)

\* The order sort_values('DateTime24') puts two rows in (lines 101, 113, 120).
SortsBefore(a, b) == a.DateTime24 <= b.DateTime24

\* rows.sort_values(...): the default quicksort is not stable, so every
\* ordering of the rows that respects the sort column is a possible result.
Bijections(n) == {p \in [1..n -> 1..n] : \A i, j \in 1..n : p[i] = p[j] => i = j}
Reorderings(rows) == {[i \in 1..Len(rows) |-> rows[p[i]]] : p \in Bijections(Len(rows))}
IsSorted(rows) == \A i, j \in 1..Len(rows) : i < j => SortsBefore(rows[i], rows[j])
SortValues(rows) == {s \in Reorderings(rows) : IsSorted(s)}

\* The column projections of the three tabs.
View1(r) == [FromCal |-> r.FromCal, DateTime |-> r.DateTime, Weekday |-> r.Weekday,
             Summary |-> r.Summary, Location |-> r.Location]
View2(r) == [FromCal |-> r.FromCal, DateTime |-> r.DateTime, Weekday |-> r.Weekday,
             Summary |-> r.Summary]
View3(r) == [DateTime |-> r.DateTime, Weekday |-> r.Weekday, Summary |-> r.Summary,
             Location |-> r.Location]

NoFrame == [columns |-> {}, fp |-> <<>>, rows |-> <<>>]
NoBucket == [computed |-> FALSE, rows |-> <<>>]
NoTab == [shown |-> FALSE, frame |-> <<>>, view |-> <<>>]
NotFetched == [done |-> FALSE, data |-> <<>>, error |-> <<>>]

(***************************************************************************)
(* The script run (lines 65-123).                                          *)
(***************************************************************************)
\* Line 65 with the button not pressed: the else branch, lines 122-123.
RenderIdle ==
    /\ pc = "load"
    /\ pc' = "idle"
    /\ outcome' = "info"
    /\ UNCHANGED <<runVars, frameVars, auditVars, textVars>>

\* Pressing "Run Audit Sync" reruns the script with st.button(...) true.
ClickRunAudit ==
    /\ pc = "idle"
    /\ pc' = "line68"
    /\ outcome' = "none"
    /\ UNCHANGED <<runVars, frameVars, auditVars, textVars>>

\* Lines 68-69.
FetchMaster ==
    /\ pc = "line68"
    /\ LET r == fetch_calendar(MASTER, feeds[MASTER])
       IN  /\ returned' = [returned EXCEPT ![MASTER] =
                              [done |-> TRUE, data |-> r.data, error |-> r.error]]
           /\ errors' = IF r.error = <<>> THEN errors ELSE Append(errors, r.error)
           /\ master_events' = r.data
           /\ master_df' = DataFrame(r.data)
    /\ pc' = "line72"
    /\ UNCHANGED <<outcome, feeds, next_source, all_community, community_df,
                   auditVars, textVars>>

\* One iteration of the loop of lines 72-74.
FetchCommunity ==
    /\ pc = "line72"
    /\ next_source <= Len(COMMUNITY_SOURCES)
    /\ LET name == COMMUNITY_SOURCES[next_source]
           r == fetch_calendar(name, feeds[name])
       IN  /\ returned' = [returned EXCEPT ![name] =
                              [done |-> TRUE, data |-> r.data, error |-> r.error]]
           /\ errors' = IF r.error = <<>> THEN errors ELSE Append(errors, r.error)
           /\ all_community' = all_community \o r.data
    /\ next_source' = next_source + 1
    /\ UNCHANGED <<pc, outcome, feeds, master_events, frameVars, auditVars, textVars>>

\* Lines 75-77, once the loop is exhausted.
BuildCommunity ==
    /\ pc = "line72"
    /\ next_source > Len(COMMUNITY_SOURCES)
    /\ community_df' = DataFrame(all_community)
    /\ pc' = "line79"
    /\ UNCHANGED <<outcome, runVars, master_df, auditVars, textVars>>

\* Lines 79-81.
CheckNoData ==
    /\ pc = "line79"
    /\ IF NoData(master_df, community_df)
       THEN pc' = "done" /\ outcome' = "critical"
       ELSE pc' = "line83" /\ outcome' = outcome
    /\ UNCHANGED <<runVars, frameVars, auditVars, textVars>>

\* Line 83.  df['Summary'] on a frame without that column raises KeyError,
\* which nothing catches: the script run ends there.
FingerprintMaster ==
    /\ pc = "line83"
    /\ IF {"Summary", "DateTime"} \subseteq master_df.columns
       THEN /\ master_df' = WithFingerprint(master_df)
            /\ pc' = "line84"
            /\ outcome' = outcome
       ELSE /\ master_df' = master_df
            /\ pc' = "done"
            /\ outcome' = "KeyError"
    /\ UNCHANGED <<runVars, community_df, auditVars, textVars>>

\* Line 84.
FingerprintCommunity ==
    /\ pc = "line84"
    /\ IF {"Summary", "DateTime"} \subseteq community_df.columns
       THEN /\ community_df' = WithFingerprint(community_df)
            /\ pc' = "line86"
            /\ outcome' = outcome
       ELSE /\ community_df' = community_df
            /\ pc' = "done"
            /\ outcome' = "KeyError"
    /\ UNCHANGED <<runVars, master_df, auditVars, textVars>>

\* Lines 86-87.
KeySets ==
    /\ pc = "line86"
    /\ master_keys' = KeySet(master_df)
    /\ community_keys' = KeySet(community_df)
    /\ pc' = "tab1"
    /\ UNCHANGED <<outcome, runVars, frameVars, missing, synced, io_only,
                   tab1, tab2, tab3, textVars>>

\* Lines 96-107.
Tab1 ==
    /\ pc = "tab1"
    /\ LET rows == Select(community_df, Invert(isin(community_df, master_keys)))
       IN  /\ missing' = [computed |-> TRUE, rows |-> rows]
           /\ IF rows # <<>>
              THEN \E s \in SortValues(rows) :
                      tab1' = [shown |-> TRUE, frame |-> s,
                               view |-> [i \in 1..Len(s) |-> View1(s[i])]]
              ELSE tab1' = NoTab
    /\ pc' = "tab2"
    /\ UNCHANGED <<outcome, runVars, frameVars, master_keys, community_keys,
                   synced, io_only, tab2, tab3, textVars>>

\* Lines 109-113.
Tab2 ==
    /\ pc = "tab2"
    /\ LET rows == Select(community_df, isin(community_df, master_keys))
       IN  /\ synced' = [computed |-> TRUE, rows |-> rows]
           /\ IF rows # <<>>
              THEN \E s \in SortValues(rows) :
                      tab2' = [shown |-> TRUE, frame |-> s,
                               view |-> [i \in 1..Len(s) |-> View2(s[i])]]
              ELSE tab2' = NoTab
    /\ pc' = "tab3"
    /\ UNCHANGED <<outcome, runVars, frameVars, master_keys, community_keys,
                   missing, io_only, tab1, tab3, textVars>>

\* Lines 115-120; the script run ends with the report.
Tab3 ==
    /\ pc = "tab3"
    /\ LET rows == Select(master_df, Invert(isin(master_df, community_keys)))
       IN  /\ io_only' = [computed |-> TRUE, rows |-> rows]
           /\ IF rows # <<>>
              THEN \E s \in SortValues(rows) :
                      tab3' = [shown |-> TRUE, frame |-> s,
                               view |-> [i \in 1..Len(s) |-> View3(s[i])]]
              ELSE tab3' = NoTab
    /\ pc' = "done"
    /\ outcome' = "report"
    /\ UNCHANGED <<runVars, frameVars, master_keys, community_keys,
                   missing, synced, tab1, tab2, textVars>>

(***************************************************************************)
(* The sanitize harness.                                                   *)
(***************************************************************************)
SanitizeOnce ==
    /\ pc = "s0"
    /\ out1' = sanitize_text(text)
    /\ pc' = "s1"
    /\ UNCHANGED <<outcome, runVars, frameVars, auditVars, text, out2>>

SanitizeAgain ==
    /\ pc = "s1"
    /\ out2' = sanitize_text(out1)
    /\ pc' = "s2"
    /\ UNCHANGED <<outcome, runVars, frameVars, auditVars, text, out1>>

(***************************************************************************)
(* Specifications.                                                         *)
(***************************************************************************)
Blank ==
    /\ outcome = "none"
    /\ returned = [s \in AllSources |-> NotFetched]
    /\ errors = <<>>
    /\ next_source = 1
    /\ master_keys = {} /\ community_keys = {}
    /\ missing = NoBucket /\ synced = NoBucket /\ io_only = NoBucket
    /\ tab1 = NoTab /\ tab2 = NoTab /\ tab3 = NoTab
    /\ out1 = <<>> /\ out2 = <<>>

\* The page is loaded; each URL serves one of the bounded feeds.
Init ==
    /\ pc = "load"
    /\ feeds \in [AllSources -> FeedValues]
    /\ master_events = <<>> /\ all_community = <<>>
    /\ master_df = NoFrame /\ community_df = NoFrame
    /\ text = <<>>
    /\ Blank

\* The steps a run of the script takes.  Every call of fetch_calendar ends
\* in its except clause (RunAlwaysCritical below), so a run leaves line 79
\* by the critical branch; lines 83-120 are the steps of SpecAudit.
Next ==
    \/ RenderIdle
    \/ ClickRunAudit
    \/ FetchMaster
    \/ FetchCommunity
    \/ BuildCommunity
    \/ CheckNoData

Spec == Init /\ [][Next]_vars

\* The lists the two groups of sources can hand to line 69 and line 75: the
\* master calendar carries the three rallies, GVI all but the upper-case
\* rally, IndiWMC all but the rally at 13:00.
MasterLists ==
    SeqsUpTo({Record(MASTER, ev) : ev \in {RallyAt10, RallyUpperAt10, RallyAt13}}, MaxMaster)
CommunityLists ==
    SeqsUpTo({Record("GVI", ev) : ev \in {RallyAt10, RallyAt13, VigilAt10}}
             \cup {Record("IndiWMC", ev) : ev \in {RallyAt10, RallyUpperAt10, VigilAt10}},
             MaxCommunity)

NoFeed == [status |-> "nomarker", events |-> <<>>]

InitAudit ==
    /\ pc = "line79"
    /\ feeds = [s \in AllSources |-> NoFeed]
    /\ master_events \in MasterLists
    /\ all_community \in CommunityLists
    /\ master_df = DataFrame(master_events)
    /\ community_df = DataFrame(all_community)
    /\ text = <<>>
    /\ Blank

NextAudit ==
    \/ CheckNoData
    \/ FingerprintMaster
    \/ FingerprintCommunity
    \/ KeySets
    \/ Tab1
    \/ Tab2
    \/ Tab3

SpecAudit == InitAudit /\ [][NextAudit]_vars

InitSanitize ==
    /\ pc = "s0"
    /\ feeds = [s \in AllSources |-> NoFeed]
    /\ master_events = <<>> /\ all_community = <<>>
    /\ master_df = NoFrame /\ community_df = NoFrame
    /\ Blank
    /\ text \in Texts

NextSanitize ==
    \/ SanitizeOnce
    \/ SanitizeAgain

SpecSanitize == InitSanitize /\ [][NextSanitize]_vars

(***************************************************************************)
(* Lines 79-117 as one function of the two collected lists: the outcome    *)
(* and the three buckets, each as the set of its records.                  *)
(***************************************************************************)
RowSet(rows) == {rows[i] : i \in 1..Len(rows)}
Count(rows, r) == Cardinality({i \in 1..Len(rows) : rows[i] = r})

NoReport(o) == [outcome |-> o, missing |-> {}, synced |-> {}, io_only |-> {}]

ReportOf(m, c) ==
    LET mdf == DataFrame(m)
        cdf == DataFrame(c)
    IN  IF NoData(mdf, cdf) THEN NoReport("critical")                       \* 79-80
        ELSE IF ~({"Summary", "DateTime"} \subseteq mdf.columns)
             THEN NoReport("KeyError")                                      \* 83
        ELSE IF ~({"Summary", "DateTime"} \subseteq cdf.columns)
             THEN NoReport("KeyError")                                      \* 84
        ELSE LET mf == WithFingerprint(mdf)
                 cf == WithFingerprint(cdf)
                 mk == KeySet(mf)
                 ck == KeySet(cf)
             IN  [outcome |-> "report",
                  missing |-> RowSet(Select(cf, Invert(isin(cf, mk)))),     \* 98
                  synced |-> RowSet(Select(cf, isin(cf, mk))),             \* 111
                  io_only |-> RowSet(Select(mf, Invert(isin(mf, ck))))]    \* 117

\* What the run in the current state has produced.
Produced ==
    [outcome |-> outcome, missing |-> RowSet(missing.rows),
     synced |-> RowSet(synced.rows), io_only |-> RowSet(io_only.rows)]

(***************************************************************************)
(* The claims.                                                             *)
(***************************************************************************)
\* The spec's sameness test: equal lowercased Summary and identical DateTime.
SameOccurrence(a, b) == lower(a.Summary) = lower(b.Summary) /\ a.DateTime = b.DateTime
OnMaster(c) == \E j \in 1..Len(master_events) : SameOccurrence(c, master_events[j])
OnCommunity(m) == \E i \in 1..Len(all_community) : SameOccurrence(all_community[i], m)

BucketsFollowFingerprint ==
    /\ \A i \in 1..Len(all_community) :
          LET c == all_community[i]
          IN  /\ (c \in RowSet(synced.rows)) <=> OnMaster(c)
              /\ (c \in RowSet(missing.rows)) <=> ~OnMaster(c)
    /\ \A j \in 1..Len(master_events) :
          LET m == master_events[j]
          IN  (m \in RowSet(io_only.rows)) <=> ~OnCommunity(m)

\* C1: for every master and community collection, once the run has ended a
\* community record is in synchronized iff some master record has the same
\* lowercased Summary and the identical DateTime, and in missing otherwise; a
\* master record is in master-only iff no community record matches it; no
\* other field takes part.
C1_BucketsFollowFingerprint == pc = "done" => BucketsFollowFingerprint

\* The same placement rule on the runs that produce the report (both
\* collections non-empty): it holds there.
PlacementWhenReported == (pc = "done" /\ outcome = "report") => BucketsFollowFingerprint

\* C2: when the report is produced, every community record is in exactly
\* one of synchronized and missing, duplicates counted: as many copies in the
\* two buckets together as in community, and no record in both.
C2_SyncedMissingPartition ==
    (synced.computed /\ missing.computed) =>
        \A r \in RowSet(community_df.rows) \cup RowSet(synced.rows) \cup RowSet(missing.rows) :
            /\ Count(synced.rows, r) + Count(missing.rows, r) = Count(community_df.rows, r)
            /\ ~(r \in RowSet(synced.rows) /\ r \in RowSet(missing.rows))

\* Two master records share a fingerprint, a community record matches them
\* and another community record matches nothing.
C2_Witness ==
    /\ synced.computed /\ missing.computed
    /\ Len(master_df.rows) = 2 /\ master_df.fp[1] = master_df.fp[2]
    /\ synced.rows # <<>> /\ missing.rows # <<>>

\* C3: with exactly one of the two collections empty the reconciliation
\* does not raise: an empty master gives missing = community and the other
\* two buckets empty; an empty community gives master-only = master and the
\* other two buckets empty.
C3_OneSideEmpty ==
    pc = "done" =>
        /\ (master_events = <<>> /\ all_community # <<>>) =>
              /\ outcome = "report"
              /\ synced.computed /\ synced.rows = <<>>
              /\ io_only.computed /\ io_only.rows = <<>>
              /\ missing.computed /\ missing.rows = all_community
        /\ (all_community = <<>> /\ master_events # <<>>) =>
              /\ outcome = "report"
              /\ synced.computed /\ synced.rows = <<>>
              /\ missing.computed /\ missing.rows = <<>>
              /\ io_only.computed /\ io_only.rows = master_events

NothingComputed ==
    /\ ~missing.computed /\ ~synced.computed /\ ~io_only.computed
    /\ ~tab1.shown /\ ~tab2.shown /\ ~tab3.shown

\* C4: a run ends in the critical no-data outcome iff master and community
\* contributed no event; then no bucket is computed or rendered; every other
\* run ends with the three-bucket report.
C4_CriticalIffNoData ==
    pc = "done" =>
        /\ (outcome = "critical") <=> (master_events = <<>> /\ all_community = <<>>)
        /\ (outcome = "critical") => NothingComputed
        /\ (outcome # "critical") =>
              /\ outcome = "report"
              /\ missing.computed /\ synced.computed /\ io_only.computed

\* The records a feed's events normalise to, for the sources that succeed.
RECURSIVE EventsOfSucceeding(_)
EventsOfSucceeding(names) ==
    IF names = <<>> THEN <<>>
    ELSE LET n == Head(names)
             f == feeds[n]
         IN  (IF f.status = "ok"
              THEN [i \in 1..Len(f.events) |-> Record(n, f.events[i])]
              ELSE <<>>)
             \o EventsOfSucceeding(Tail(names))

\* C5: whatever subset of the sources fails (network, HTTP status, timeout,
\* parse error, no BEGIN:VCALENDAR), once the loop is over every source was
\* fetched, each failing source contributed nothing and the community
\* collection holds exactly the events of the sources that did not fail.
C5_PartialFailure ==
    pc \in {"line79", "done"} =>
        /\ \A n \in AllSources : returned[n].done
        /\ \A n \in AllSources : feeds[n].status # "ok" => returned[n].data = <<>>
        /\ all_community = EventsOfSucceeding(COMMUNITY_SOURCES)

\* C6: sanitize_text(sanitize_text(x)) = sanitize_text(x) for every text x.
C6_SanitizeIdempotent == pc = "s2" => out2 = out1

\* C7: "Rally<br>Today &amp; Tomorrow\n" sanitizes to "Rally Today & Tomorrow".
C7_ScenarioD == (pc \in {"s1", "s2"} /\ text = ScenarioD) => out1 = ScenarioDClean

\* Python's order on the source labels.
SourceOrder == <<"GVI", "Gritroc", "IndiWMC", "RocNY">>
SourceRank(n) == CHOOSE i \in 1..Len(SourceOrder) : SourceOrder[i] = n
BySourceThenInstant(a, b) ==
    \/ SourceRank(a.FromCal) < SourceRank(b.FromCal)
    \/ a.FromCal = b.FromCal /\ a.DateTime24 <= b.DateTime24
ShownTabs == {t \in {tab1, tab2, tab3} : t.shown}

\* C8 as stated: the rows of each rendered bucket are ordered by source
\* label first and by start instant within a source.
C8_SourceThenInstant ==
    \A t \in ShownTabs : \A i, j \in 1..Len(t.frame) :
        i < j => BySourceThenInstant(t.frame[i], t.frame[j])

\* C8 as amended: the rows of each rendered bucket are the bucket's rows in
\* the order of the start instant (DateTime24) alone; neither the source
\* label nor the DateTime display string takes part.
C8_ByInstantOnly ==
    /\ \A t \in ShownTabs : \A i, j \in 1..Len(t.frame) :
          i < j => t.frame[i].DateTime24 <= t.frame[j].DateTime24
    /\ tab1.shown => tab1.frame \in Reorderings(missing.rows)
    /\ tab2.shown => tab2.frame \in Reorderings(synced.rows)
    /\ tab3.shown => tab3.frame \in Reorderings(io_only.rows)

\* A rendered bucket whose chronological order is not the order of the
\* display strings: 10:00 AM comes before 01:00 PM.
C8_Witness ==
    \E t \in ShownTabs : \E i, j \in 1..Len(t.frame) :
        /\ i < j
        /\ t.frame[i].DateTime24 < t.frame[j].DateTime24
        /\ StrLess(t.frame[j].DateTime, t.frame[i].DateTime)

\* C9: the outcome and the three buckets, as sets of records, are the same
\* for every reordering of the master list and of the community list.
C9_OrderIndependent ==
    pc = "done" =>
        \A m \in Reorderings(master_events) : \A c \in Reorderings(all_community) :
            ReportOf(m, c) = Produced

\* A report on two different master records and two different community
\* records, with a record in synchronized and one in missing.
C9_Witness ==
    /\ pc = "done" /\ outcome = "report"
    /\ Len(master_events) = 2 /\ master_events[1] # master_events[2]
    /\ Len(all_community) = 2 /\ all_community[1] # all_community[2]
    /\ synced.rows # <<>> /\ missing.rows # <<>>

\* C10: a source whose retrieval succeeds, with the marker and n parsed
\* events, makes fetch_calendar return n records labelled with its name; so
\* the master collection holds only "RocNY" records.
C10_FetchReturnsParsedEvents ==
    \A n \in AllSources :
        (returned[n].done /\ feeds[n].status = "ok") =>
            /\ Len(returned[n].data) = Len(feeds[n].events)
            /\ \A i \in 1..Len(returned[n].data) : returned[n].data[i].FromCal = n

\* The script as written never reaches line 83: every fetch ends in the
\* except clause, both frames are empty and the run ends at line 80.
RunAlwaysCritical ==
    /\ pc \notin {"line83", "line84", "line86", "tab1", "tab2", "tab3"}
    /\ pc = "done" => outcome = "critical"
    /\ \A n \in AllSources : returned[n].done => returned[n].error = <<n, "NameError">>

====
